---- MODULE Spec2Model ----
(***************************************************************************)
(* Status aggregate of a custom resource (pkg/apis/clickhouse.altinity.com *)
(* /v1) and the status update protocol of the keeper CR (package kube,     *)
(* CR.StatusUpdate / CR.doUpdateCRStatus).                                 *)
(*                                                                         *)
(* Representation.  Action and error strings are represented by natural    *)
(* numbers whose numeric order is the lexicographic order of the strings   *)
(* (the entries are timestamped strings); task ids, pods, hosts and        *)
(* configuration documents are represented by small naturals as well, 0    *)
(* standing for the empty string / the nil pointer.  A resource version is *)
(* a natural number.  Go errors are strings, "nil" being the nil error.    *)
(***************************************************************************)
EXTENDS Naturals, Integers, Sequences, FiniteSets, TLC

VARIABLES
    pc,        \* position of the StatusUpdate invocation
    ctxDone,   \* util.IsContextDone(ctx)
    attempt,   \* loop variable attempt of StatusUpdate
    retry,     \* loop variable retry of StatusUpdate
    err,       \* named result err of StatusUpdate
    ret,       \* value StatusUpdate returned ("none" until it returns)
    chk,       \* the caller's local resource: resource version and status
    opts,      \* commonTypes.UpdateStatusOptions
    cur,       \* object fetched by the current attempt (NoObject outside)
    hist,      \* observation record of the invocation (not program state)
    agg,       \* the Status aggregates, by name (NilStatus: a nil *Status)
    mu,        \* the sync.RWMutex of each aggregate
    wk,        \* the workers calling methods of the aggregates
    obs,       \* observation record of the calls on the aggregates
    shared     \* the slice fields that are one and the same slice in both
               \* aggregates (same backing array, same length)

\* the variables of the aggregates; a StatusUpdate invocation works on its
\* own objects (chk, cur) and leaves these alone
aggVars == <<agg, mu, wk, obs, shared>>

\* the variables of a StatusUpdate invocation
syncVars == <<pc, ctxDone, attempt, retry, err, ret, chk, opts, cur, hist>>

vars == <<pc, ctxDone, attempt, retry, err, ret, chk, opts, cur, hist, agg, mu, wk, obs,
          shared>>

----------------------------------------------------------------------------
(* Bounds of the model *)

MaxRV == 2
MaxItem == 2

(* Program constants *)

maxActions == 10
maxErrors == 10
maxTaskIDs == 10
MaxAttempt == 60
SleepSeconds == 1

----------------------------------------------------------------------------
(* Sequences of strings *)

InArray(x, arr) == \E i \in 1..Len(arr) : arr[i] = x

Take(arr, n) == IF Len(arr) > n THEN SubSeq(arr, 1, n) ELSE arr

RECURSIVE Dedup(_)
Dedup(arr) ==
    IF arr = <<>> THEN <<>>
    ELSE LET init == Dedup(SubSeq(arr, 1, Len(arr) - 1))
             last == arr[Len(arr)]
         IN  IF InArray(last, init) THEN init ELSE Append(init, last)

\* util.MergeStringArrays: union of dst and src, duplicates collapsed
MergeStringArrays(dst, src) == Dedup(dst \o src)

RECURSIVE InsertDesc(_, _)
InsertDesc(x, arr) ==
    IF arr = <<>> THEN <<x>>
    ELSE IF x >= Head(arr) THEN <<x>> \o arr
    ELSE <<Head(arr)>> \o InsertDesc(x, Tail(arr))

\* sort.Sort(sort.Reverse(sort.StringSlice(arr)))
RECURSIVE SortReverse(_)
SortReverse(arr) ==
    IF arr = <<>> THEN <<>> ELSE InsertDesc(Head(arr), SortReverse(Tail(arr)))

----------------------------------------------------------------------------
(* The Status aggregate *)

StatusInProgress == "InProgress"
StatusCompleted == "Completed"
StatusAborted == "Aborted"
StatusTerminating == "Terminating"

\* a nil *Status
NilStatus == [isNil |-> TRUE]

IsNilStatus(s) == "isNil" \in DOMAIN s

\* the zero value of Status
EmptyStatus ==
    [CHOpVersion |-> 0, CHOpCommit |-> 0, CHOpDate |-> 0, CHOpIP |-> 0,
     ClustersCount |-> 0, ShardsCount |-> 0, ReplicasCount |-> 0, HostsCount |-> 0,
     Status |-> "", TaskID |-> 0,
     TaskIDsStarted |-> <<>>, TaskIDsCompleted |-> <<>>,
     Action |-> 0, Actions |-> <<>>,
     Error |-> 0, Errors |-> <<>>,
     HostsUpdatedCount |-> 0, HostsAddedCount |-> 0, HostsUnchangedCount |-> 0,
     HostsFailedCount |-> 0, HostsCompletedCount |-> 0, HostsDeletedCount |-> 0,
     HostsDeleteCount |-> 0,
     Pods |-> <<>>, PodIPs |-> <<>>,
     FQDNs |-> <<>>, FQDNsIsNil |-> TRUE,
     Endpoint |-> 0,
     NormalizedCR |-> 0, NormalizedCRCompleted |-> 0,
     HostsWithTablesCreated |-> <<>>,
     UsedTemplates |-> <<>>]

trimActionsNoSync(s) == [s EXCEPT !.Actions = Take(s.Actions, maxActions)]

\* mergeActionsNoSync without the cut to maxActions
mergeActionsNoSync_NoTrim(s, from) ==
    [s EXCEPT !.Actions = SortReverse(MergeStringArrays(s.Actions, from.Actions))]

mergeActionsNoSync(s, from) ==
    trimActionsNoSync(
        [s EXCEPT !.Actions = SortReverse(MergeStringArrays(s.Actions, from.Actions))])

\* if opts.InheritableFields { ... }
CopyInheritableFields(s, from) ==
    [s EXCEPT !.TaskIDsStarted = from.TaskIDsStarted,
              !.TaskIDsCompleted = from.TaskIDsCompleted,
              !.Actions = from.Actions,
              !.Errors = from.Errors,
              !.HostsWithTablesCreated = from.HostsWithTablesCreated]

\* if opts.Actions { ... }
CopyActions(s, from) ==
    LET s1 == mergeActionsNoSync([s EXCEPT !.Action = from.Action], from)
    IN  [s1 EXCEPT !.HostsWithTablesCreated = from.HostsWithTablesCreated,
                   !.UsedTemplates = from.UsedTemplates]

\* the Errors switch with the cap of the pushes applied
CopyErrors_Capped(s, from) ==
    [s EXCEPT !.Error = from.Error,
              !.Errors = Take(SortReverse(MergeStringArrays(s.Errors, from.Errors)), maxErrors)]

\* if opts.Errors { ... }
CopyErrors(s, from) ==
    [s EXCEPT !.Error = from.Error,
              !.Errors = SortReverse(MergeStringArrays(s.Errors, from.Errors))]

\* if opts.MainFields { ... }
CopyMainFields(s, from) ==
    LET s1 == [s EXCEPT !.CHOpVersion = from.CHOpVersion,
                        !.CHOpCommit = from.CHOpCommit,
                        !.CHOpDate = from.CHOpDate,
                        !.CHOpIP = from.CHOpIP,
                        !.ClustersCount = from.ClustersCount,
                        !.ShardsCount = from.ShardsCount,
                        !.ReplicasCount = from.ReplicasCount,
                        !.HostsCount = from.HostsCount,
                        !.Status = from.Status,
                        !.TaskID = from.TaskID,
                        !.TaskIDsStarted = from.TaskIDsStarted,
                        !.TaskIDsCompleted = from.TaskIDsCompleted,
                        !.Action = from.Action]
        s2 == mergeActionsNoSync(s1, from)
    IN  [s2 EXCEPT !.Error = from.Error,
                   !.Errors = from.Errors,
                   !.HostsUpdatedCount = from.HostsUpdatedCount,
                   !.HostsAddedCount = from.HostsAddedCount,
                   !.HostsUnchangedCount = from.HostsUnchangedCount,
                   !.HostsCompletedCount = from.HostsCompletedCount,
                   !.HostsDeletedCount = from.HostsDeletedCount,
                   !.HostsDeleteCount = from.HostsDeleteCount,
                   !.Pods = from.Pods,
                   !.PodIPs = from.PodIPs,
                   !.FQDNs = from.FQDNs,
                   !.FQDNsIsNil = from.FQDNsIsNil,
                   !.Endpoint = from.Endpoint,
                   !.NormalizedCR = from.NormalizedCR]

\* the Normalized switch copying the completed snapshot as well
CopyNormalized_WithCompleted(s, from) ==
    [s EXCEPT !.NormalizedCR = from.NormalizedCR,
              !.NormalizedCRCompleted = from.NormalizedCRCompleted]

\* if opts.Normalized { ... }
CopyNormalized(s, from) == [s EXCEPT !.NormalizedCR = from.NormalizedCR]

\* if opts.WholeStatus { ... }
CopyWholeStatus(s, from) ==
    [CopyMainFields(s, from) EXCEPT !.NormalizedCRCompleted = from.NormalizedCRCompleted]

\* types.CopyStatusOptions with every switch off
NoCopyOptions ==
    [InheritableFields |-> FALSE, Actions |-> FALSE, Errors |-> FALSE,
     MainFields |-> FALSE, Normalized |-> FALSE, WholeStatus |-> FALSE]

\* The slice fields that CopyFrom assigns from the source as they are
\* (s.Actions = from.Actions, s.Errors = from.Errors: one backing array in
\* both aggregates) and that it sorts in place after a merge.
SlicesSortedInPlace == {"Actions", "Errors"}

\* s.F = util.MergeStringArrays(s.F, from.F) followed by
\* sort.Sort(sort.Reverse(sort.StringSlice(s.F))) on the pair
\* p = [s, from, sh], sh being the fields that are one slice in s and from.
\* keeps: MergeStringArrays gives back the storage of its first argument
\* when it has nothing to add to it (otherwise the result is a new slice).
\* The sort then permutes that storage, the one from.F reads, too.
MergeAndSortInPlace(p, F, keeps) ==
    LET merged == MergeStringArrays(p.s[F], p.from[F])
        sorted == SortReverse(merged)
    IN  IF keeps /\ merged = p.s[F] /\ F \in p.sh
        THEN [s |-> [p.s EXCEPT ![F] = sorted],
              from |-> [p.from EXCEPT ![F] = sorted],
              sh |-> IF F = "Actions" /\ Len(sorted) > maxActions
                     THEN p.sh \ {F} ELSE p.sh]
        ELSE [s |-> [p.s EXCEPT ![F] = sorted],
              from |-> p.from,
              sh |-> p.sh \ {F}]

\* CopyFrom with the Errors block applied last, after the WholeStatus block
CopyFromInPlace_ErrorsLast(s, from, sh, o, keeps) ==
    LET p == [s |-> s, from |-> from, sh |-> sh]
        a == IF o.InheritableFields
             THEN [p EXCEPT !.s = CopyInheritableFields(p.s, p.from),
                            !.sh = SlicesSortedInPlace]
             ELSE p
        b == IF o.Actions
             THEN LET q == MergeAndSortInPlace(a, "Actions", keeps)
                  IN  [q EXCEPT !.s = CopyActions(q.s, q.from)]
             ELSE a
        d == IF o.MainFields
             THEN LET q == MergeAndSortInPlace(b, "Actions", keeps)
                  IN  [q EXCEPT !.s = CopyMainFields(q.s, q.from),
                                !.sh = q.sh \cup {"Errors"}]
             ELSE b
        e == IF o.Normalized
             THEN [d EXCEPT !.s = CopyNormalized(d.s, d.from)]
             ELSE d
        f == IF o.WholeStatus
             THEN LET q == MergeAndSortInPlace(e, "Actions", keeps)
                  IN  [q EXCEPT !.s = CopyWholeStatus(q.s, q.from),
                                !.sh = q.sh \cup {"Errors"}]
             ELSE e
    IN  IF o.Errors
        THEN LET q == MergeAndSortInPlace(f, "Errors", keeps)
             IN  [q EXCEPT !.s = CopyErrors(q.s, q.from)]
        ELSE f

\* The blocks of Status.CopyFrom, lines 395-485, on the two aggregates and
\* the slices they share: the receiver, the source and the shared fields
\* after them.  After the merge and in-place sort of a block the assignments
\* of the block are those of the operator of the block (whose own merge
\* then finds nothing to add).
CopyFromInPlace(s, from, sh, o, keeps) ==
    LET p == [s |-> s, from |-> from, sh |-> sh]
        a == IF o.InheritableFields
             THEN [p EXCEPT !.s = CopyInheritableFields(p.s, p.from),
                            !.sh = SlicesSortedInPlace]
             ELSE p
        b == IF o.Actions
             THEN LET q == MergeAndSortInPlace(a, "Actions", keeps)
                  IN  [q EXCEPT !.s = CopyActions(q.s, q.from)]
             ELSE a
        c == IF o.Errors
             THEN LET q == MergeAndSortInPlace(b, "Errors", keeps)
                  IN  [q EXCEPT !.s = CopyErrors(q.s, q.from)]
             ELSE b
        d == IF o.MainFields
             THEN LET q == MergeAndSortInPlace(c, "Actions", keeps)
                  IN  [q EXCEPT !.s = CopyMainFields(q.s, q.from),
                                !.sh = q.sh \cup {"Errors"}]
             ELSE c
        e == IF o.Normalized
             THEN [d EXCEPT !.s = CopyNormalized(d.s, d.from)]
             ELSE d
    IN  IF o.WholeStatus
        THEN LET q == MergeAndSortInPlace(e, "Actions", keeps)
             IN  [q EXCEPT !.s = CopyWholeStatus(q.s, q.from),
                           !.sh = q.sh \cup {"Errors"}]
        ELSE e

\* CopyFrom reading a nil source as an empty one
CopyFrom_NilSourceIsEmpty(s, from, sh, o, keeps) ==
    IF IsNilStatus(s) THEN [s |-> s, from |-> from, sh |-> sh]
    ELSE IF IsNilStatus(from)
    THEN [s |-> CopyFromInPlace(s, EmptyStatus, {}, o, keeps).s,
          from |-> from, sh |-> {}]
    ELSE CopyFromInPlace(s, from, sh, o, keeps)

\* Status.CopyFrom: the receiver s, the source from and the slice fields sh
\* the two share, after s.CopyFrom(from, o).  Nothing is done when either
\* is nil (doWithWriteLock, doWithReadLock and line 391).  sh are the
\* fields shared before the call; keeps is whether util.MergeStringArrays
\* gives back the storage it was given when it has nothing to add.
CopyFrom(s, from, sh, o, keeps) ==
    IF IsNilStatus(s) \/ IsNilStatus(from)
    THEN [s |-> s, from |-> from, sh |-> sh]
    ELSE CopyFromInPlace(s, from, sh, o, keeps)

\* the fields for which a mutator allocates a new slice
\* (append([]string{x}, s.F...))
Reallocated(opname) ==
    IF opname = "PushAction" THEN {"Actions"}
    ELSE IF opname \in {"PushError", "SetAndPushError"} THEN {"Errors"}
    ELSE {}

----------------------------------------------------------------------------
(* Mutators and accessors of the Status aggregate.  Each operator gives the *)
(* receiver after the call; the body runs under the write lock of the       *)
(* receiver (doWithWriteLock), which the specifications below either take   *)
(* in a step of its own or treat as part of the one atomic call.            *)

\* doWithWriteLock: nothing is done on a nil receiver; after is the receiver
\* once the body f has run on it
doWithWriteLock(s, after) == IF IsNilStatus(s) THEN s ELSE after

\* getIntWithReadLock; val is what the body f reads from the receiver
getIntWithReadLock(s, val) == IF IsNilStatus(s) THEN 0 ELSE val

\* getStringWithReadLock; zeroVal is the empty string in the representation
\* of the field read (0, or "" for the Status field)
getStringWithReadLock(s, val, zeroVal) == IF IsNilStatus(s) THEN zeroVal ELSE val

\* getInstallationWithReadLock; 0 is the nil *ClickHouseInstallation
getInstallationWithReadLock(s, val) == IF IsNilStatus(s) THEN 0 ELSE val

\* getStringArrWithReadLock
getStringArrWithReadLock(s, val) == IF IsNilStatus(s) THEN <<>> ELSE val

\* version.Version, version.GitSHA, version.BuiltAt
VersionVersion == 1
VersionGitSHA == 1
VersionBuiltAt == 1

\* util.IntersectStringArrays: the items of a that are in b
IntersectStringArrays(a, b) == SelectSeq(a, LAMBDA x : InArray(x, b))

Fill(s, params) ==
    doWithWriteLock(s, [s EXCEPT !.CHOpVersion = VersionVersion,
                  !.CHOpCommit = VersionGitSHA,
                  !.CHOpDate = VersionBuiltAt,
                  !.CHOpIP = params.CHOpIP,
                  !.ClustersCount = params.ClustersCount,
                  !.ShardsCount = params.ShardsCount,
                  !.HostsCount = params.HostsCount,
                  !.TaskID = params.TaskID,
                  !.HostsUpdatedCount = params.HostsUpdatedCount,
                  !.HostsAddedCount = params.HostsAddedCount,
                  !.HostsUnchangedCount = params.HostsUnchangedCount,
                  !.HostsCompletedCount = params.HostsCompletedCount,
                  !.HostsDeleteCount = params.HostsDeleteCount,
                  !.HostsDeletedCount = params.HostsDeletedCount,
                  !.Pods = params.Pods,
                  !.FQDNs = params.FQDNs,
                  !.FQDNsIsNil = params.FQDNsIsNil,
                  !.Endpoint = params.Endpoint,
                  !.NormalizedCR = params.NormalizedCR])

SetError(s, e) == doWithWriteLock(s, [s EXCEPT !.Error = e])

SetAndPushError(s, e) ==
    doWithWriteLock(s, [s EXCEPT !.Error = e, !.Errors = Take(<<e>> \o s.Errors, maxErrors)])

PushHostTablesCreated(s, host) ==
    doWithWriteLock(s, IF InArray(host, s.HostsWithTablesCreated) THEN s
        ELSE [s EXCEPT !.HostsWithTablesCreated = Append(@, host)])

\* SyncHostTablesCreated without the check for unset FQDNs
SyncHostTablesCreated_NoNilCheck(s) ==
    doWithWriteLock(s, [s EXCEPT !.HostsWithTablesCreated = IntersectStringArrays(@, s.FQDNs)])

SyncHostTablesCreated(s) ==
    doWithWriteLock(s, IF s.FQDNsIsNil THEN s
        ELSE [s EXCEPT !.HostsWithTablesCreated = IntersectStringArrays(@, s.FQDNs)])

PushUsedTemplate(s, templateRef) ==
    doWithWriteLock(s, [s EXCEPT !.UsedTemplates = Append(@, templateRef)])

GetUsedTemplatesCount(s) == getIntWithReadLock(s, Len(s.UsedTemplates))

SetAction(s, action) == doWithWriteLock(s, [s EXCEPT !.Action = action])

\* PushAction appending the new action at the end of the history
PushAction_Appends(s, action) ==
    doWithWriteLock(s, trimActionsNoSync([s EXCEPT !.Actions = s.Actions \o <<action>>]))

PushAction(s, action) ==
    doWithWriteLock(s, trimActionsNoSync([s EXCEPT !.Actions = <<action>> \o s.Actions]))

\* PushError without the cap
PushError_NoCap(s, e) ==
    doWithWriteLock(s, [s EXCEPT !.Errors = <<e>> \o s.Errors])

PushError(s, e) ==
    doWithWriteLock(s, [s EXCEPT !.Errors = Take(<<e>> \o s.Errors, maxErrors)])

SetPodIPs(s, podIPs) == doWithWriteLock(s, [s EXCEPT !.PodIPs = podIPs])

\* HostDeleted that also counts the host off the to-delete counter
HostDeleted_CountsDown(s) ==
    doWithWriteLock(s, [s EXCEPT !.HostsDeletedCount = @ + 1, !.HostsDeleteCount = @ - 1])

HostDeleted(s) == doWithWriteLock(s, [s EXCEPT !.HostsDeletedCount = @ + 1])

HostUpdated(s) == doWithWriteLock(s, [s EXCEPT !.HostsUpdatedCount = @ + 1])

HostAdded(s) == doWithWriteLock(s, [s EXCEPT !.HostsAddedCount = @ + 1])

HostUnchanged(s) == doWithWriteLock(s, [s EXCEPT !.HostsUnchangedCount = @ + 1])

HostFailed(s) == doWithWriteLock(s, [s EXCEPT !.HostsFailedCount = @ + 1])

HostCompleted(s) == doWithWriteLock(s, [s EXCEPT !.HostsCompletedCount = @ + 1])

pushTaskIDStartedNoSync(s) ==
    [s EXCEPT !.TaskIDsStarted = Take(<<s.TaskID>> \o s.TaskIDsStarted, maxTaskIDs)]

pushTaskIDCompletedNoSync(s) ==
    [s EXCEPT !.TaskIDsCompleted = Take(<<s.TaskID>> \o s.TaskIDsCompleted, maxTaskIDs)]

\* ReconcileStart that pushes the task id into the completed history
ReconcileStart_PushesCompleted(s, deleteHostsCount) ==
    doWithWriteLock(s, pushTaskIDCompletedNoSync(
            [s EXCEPT !.Status = StatusInProgress,
                      !.HostsUpdatedCount = 0,
                      !.HostsAddedCount = 0,
                      !.HostsUnchangedCount = 0,
                      !.HostsCompletedCount = 0,
                      !.HostsDeletedCount = 0,
                      !.HostsDeleteCount = deleteHostsCount]))

ReconcileStart(s, deleteHostsCount) ==
    doWithWriteLock(s, pushTaskIDStartedNoSync(
            [s EXCEPT !.Status = StatusInProgress,
                      !.HostsUpdatedCount = 0,
                      !.HostsAddedCount = 0,
                      !.HostsUnchangedCount = 0,
                      !.HostsCompletedCount = 0,
                      !.HostsDeletedCount = 0,
                      !.HostsDeleteCount = deleteHostsCount]))

ReconcileComplete(s) ==
    doWithWriteLock(s, pushTaskIDCompletedNoSync([s EXCEPT !.Status = StatusCompleted, !.Action = 0]))

ReconcileAbort(s) ==
    doWithWriteLock(s, pushTaskIDCompletedNoSync([s EXCEPT !.Status = StatusAborted, !.Action = 0]))

DeleteStart(s) ==
    doWithWriteLock(s, pushTaskIDStartedNoSync(
            [s EXCEPT !.Status = StatusTerminating,
                      !.HostsUpdatedCount = 0,
                      !.HostsAddedCount = 0,
                      !.HostsUnchangedCount = 0,
                      !.HostsCompletedCount = 0,
                      !.HostsDeletedCount = 0,
                      !.HostsDeleteCount = 0]))

ClearNormalizedCR(s) == doWithWriteLock(s, [s EXCEPT !.NormalizedCR = 0])

SetNormalizedCompletedFromCurrentNormalized(s) ==
    doWithWriteLock(s, [s EXCEPT !.NormalizedCRCompleted = s.NormalizedCR])

GetNormalizedCR(s) == getInstallationWithReadLock(s, s.NormalizedCR)

GetNormalizedCRCompleted(s) ==
    getInstallationWithReadLock(s, s.NormalizedCRCompleted)

HasNormalizedCRCompleted(s) == GetNormalizedCRCompleted(s) # 0

HasNormalizedCR(s) == GetNormalizedCR(s) # 0

GetStatus(s) == getStringWithReadLock(s, s.Status, "")

GetTaskID(s) == getStringWithReadLock(s, s.TaskID, 0)

GetAction(s) == getStringWithReadLock(s, s.Action, 0)

GetError(s) == getStringWithReadLock(s, s.Error, 0)

GetEndpoint(s) == getStringWithReadLock(s, s.Endpoint, 0)

GetTaskIDsStarted(s) == getStringArrWithReadLock(s, s.TaskIDsStarted)

GetTaskIDsCompleted(s) == getStringArrWithReadLock(s, s.TaskIDsCompleted)

GetActions(s) == getStringArrWithReadLock(s, s.Actions)

\* Status.GetErrors
StatusGetErrors(s) == getStringArrWithReadLock(s, s.Errors)

GetPods(s) == getStringArrWithReadLock(s, s.Pods)

GetPodIPs(s) == getStringArrWithReadLock(s, s.PodIPs)

GetFQDNs(s) == getStringArrWithReadLock(s, s.FQDNs)

GetHostsWithTablesCreated(s) ==
    getStringArrWithReadLock(s, s.HostsWithTablesCreated)

GetHostsCount(s) == getIntWithReadLock(s, s.HostsCount)

GetHostsUpdatedCount(s) == getIntWithReadLock(s, s.HostsUpdatedCount)

GetHostsAddedCount(s) == getIntWithReadLock(s, s.HostsAddedCount)

GetHostsUnchangedCount(s) == getIntWithReadLock(s, s.HostsUnchangedCount)

GetHostsFailedCount(s) == getIntWithReadLock(s, s.HostsFailedCount)

GetHostsCompletedCount(s) == getIntWithReadLock(s, s.HostsCompletedCount)

GetHostsDeletedCount(s) == getIntWithReadLock(s, s.HostsDeletedCount)

GetHostsDeleteCount(s) == getIntWithReadLock(s, s.HostsDeleteCount)

----------------------------------------------------------------------------
(* The aggregates, their locks and the workers *)

\* steps of one behaviour of SpecStatus
MaxSteps == 2

Aggs == {"A", "B"}
Workers == {"w1", "w2"}

\* an unlocked sync.RWMutex
FreeMutex == [writer |-> "none", readers |-> {}]

IdleWorker == [pc |-> "idle", op |-> "none", arg |-> 0, dst |-> "none", src |-> "none"]

NoObs ==
    [op |-> "none", target |-> "none", source |-> "none", arg |-> 0,
     before |-> [a \in Aggs |-> EmptyStatus], steps |-> 0,
     prevOp |-> "none", prevBefore |-> [a \in Aggs |-> EmptyStatus],
     actLog |-> <<>>, errLog |-> <<>>]

\* aggregates as constructed, nobody calling
AggIdle ==
    /\ agg = [a \in Aggs |-> EmptyStatus]
    /\ mu = [a \in Aggs |-> FreeMutex]
    /\ wk = [w \in Workers |-> IdleWorker]
    /\ obs = NoObs
    /\ shared = {}

----------------------------------------------------------------------------
(* The store behind kubeClient and the inputs of StatusUpdate *)

RVs == 0..MaxRV
Items == 1..MaxItem

\* errors kubeClient.Get may report
GetErrors == {"get: not found", "get: timeout"}

\* errors kubeClient.Status().Update may report
UpdateErrors == {"update: conflict", "update: timeout"}

ErrNullReturned == "ERROR GetCR: NULL returned"

\* the nil interface value CR.Get returns together with an error
NilObject == [isNilObject |-> TRUE]

\* cur outside an attempt
NoObject == [isNoObject |-> TRUE]

\* status of the caller's local resource (chk.Status may be nil)
LocalStatuses ==
    {NilStatus} \cup
    {[EmptyStatus EXCEPT !.Status = StatusInProgress, !.TaskID = 1,
                         !.TaskIDsStarted = <<1>>,
                         !.Action = a, !.Actions = <<a>>,
                         !.Error = a, !.Errors = <<a, 1>>,
                         !.HostsAddedCount = 1] : a \in Items}

\* status of the persisted resource as kubeClient.Get may deliver it
StoredStatuses ==
    {EmptyStatus} \cup
    {[EmptyStatus EXCEPT !.Status = StatusCompleted,
                         !.Action = a, !.Actions = <<a>>,
                         !.Errors = <<a>>,
                         !.NormalizedCRCompleted = 1] : a \in {MaxItem}}

\* persisted resources kubeClient.Get may deliver
StoredObjects == {[rv |-> v, status |-> st] : v \in RVs, st \in StoredStatuses}

\* CopyStatusOptions the callers of StatusUpdate use
CopyOptionsUsed ==
    {[NoCopyOptions EXCEPT !.Actions = TRUE],
     [NoCopyOptions EXCEPT !.Actions = TRUE, !.Errors = TRUE],
     [NoCopyOptions EXCEPT !.MainFields = TRUE],
     [NoCopyOptions EXCEPT !.WholeStatus = TRUE]}

UpdateStatusOptions ==
    {[TolerateAbsence |-> t, CopyStatusOptions |-> o] : t \in BOOLEAN, o \in CopyOptionsUsed}

\* CR.Get: (cm, nil) when kubeClient.Get succeeds, (nil, err) otherwise
GetResults ==
    {[obj |-> o, err |-> "nil"] : o \in StoredObjects} \cup
    {[obj |-> NilObject, err |-> e] : e \in GetErrors}

\* _cur.(*apiChk.ClickHouseKeeperInstallation): the single-value type
\* assertion panics on a nil interface value
TypeAssertionPanics(obj) == obj = NilObject

\* cur == nil after the type assertion: a nil pointer of the concrete type
IsNilPointer(obj) == obj = NoObject

----------------------------------------------------------------------------
(* CR.StatusUpdate *)

NoHist ==
    [calls |-> 0, fetches |-> 0, writes |-> 0, accepted |-> 0, sleeps |-> 0,
     slept |-> 0, failedFetches |-> 0, lastWriteErr |-> "nil", lastGetErr |-> "nil",
     ctxAtEntry |-> FALSE, ctxSkips |-> 0,
     fetchCall |-> 0, writeCall |-> 0,
     failedGet |-> "none", preRV |-> 0, reRV |-> 0, chk0 |-> NoObject]

Init ==
    /\ pc = "entry"
    /\ ctxDone \in BOOLEAN
    /\ attempt = 1
    /\ retry = TRUE
    /\ err = "nil"
    /\ ret = "none"
    /\ chk \in {[rv |-> v, status |-> st] : v \in RVs, st \in LocalStatuses}
    /\ opts \in UpdateStatusOptions
    /\ cur = NoObject
    /\ hist = [NoHist EXCEPT !.chk0 = chk]
    /\ AggIdle

\* the context is cancelled by its owner, at any moment of the invocation
Cancel ==
    /\ pc \notin {"done", "panic"}
    /\ ~ctxDone
    /\ ctxDone' = TRUE
    /\ UNCHANGED <<pc, attempt, retry, err, ret, chk, opts, cur, hist>>
    /\ UNCHANGED aggVars

\* StatusUpdate without the check of lines 94-97
StatusUpdateEntry_NoCheck ==
    /\ pc = "entry"
    /\ hist' = [hist EXCEPT !.ctxAtEntry = ctxDone]
    /\ pc' = "loop"
    /\ UNCHANGED <<ctxDone, attempt, retry, err, ret, chk, opts, cur>>
    /\ UNCHANGED aggVars

\* StatusUpdate, lines 94-97 and the loop initialisation
StatusUpdateEntry ==
    /\ pc = "entry"
    /\ hist' = [hist EXCEPT !.ctxAtEntry = ctxDone]
    /\ IF ctxDone
       THEN /\ pc' = "done"
            /\ ret' = "nil"
       ELSE /\ pc' = "loop"
            /\ ret' = ret
    /\ UNCHANGED <<ctxDone, attempt, retry, err, chk, opts, cur>>
    /\ UNCHANGED aggVars

\* the loop with a final return that drops the named result
LoopHead_ReturnsNil ==
    /\ pc = "loop"
    /\ IF retry
       THEN /\ retry' = (IF attempt > MaxAttempt THEN FALSE ELSE retry)
            /\ pc' = "do_ctx"
            /\ hist' = [hist EXCEPT !.calls = @ + 1]
            /\ ret' = ret
       ELSE /\ pc' = "done"
            /\ ret' = "nil"
            /\ UNCHANGED <<retry, hist>>
    /\ UNCHANGED <<ctxDone, attempt, err, chk, opts, cur>>
    /\ UNCHANGED aggVars

\* the loop condition, lines 99-104 up to the call of doUpdateCRStatus,
\* and the final return of line 116
LoopHead ==
    /\ pc = "loop"
    /\ IF retry
       THEN /\ retry' = (IF attempt > MaxAttempt THEN FALSE ELSE retry)
            /\ pc' = "do_ctx"
            /\ hist' = [hist EXCEPT !.calls = @ + 1]
            /\ ret' = ret
       ELSE /\ pc' = "done"
            /\ ret' = err
            /\ UNCHANGED <<retry, hist>>
    /\ UNCHANGED <<ctxDone, attempt, err, chk, opts, cur>>
    /\ UNCHANGED aggVars

\* doUpdateCRStatus without the check of lines 121-124
DoUpdateCheckContext_NoCheck ==
    /\ pc = "do_ctx"
    /\ pc' = "do_get"
    /\ UNCHANGED <<ctxDone, attempt, retry, err, ret, chk, opts, cur, hist>>
    /\ UNCHANGED aggVars

\* doUpdateCRStatus, lines 121-124
DoUpdateCheckContext ==
    /\ pc = "do_ctx"
    /\ IF ctxDone
       THEN /\ err' = "nil"
            /\ pc' = "ret"
            /\ hist' = [hist EXCEPT !.ctxSkips = @ + 1]
       ELSE /\ pc' = "do_get"
            /\ UNCHANGED <<err, hist>>
    /\ UNCHANGED <<ctxDone, attempt, retry, ret, chk, opts, cur>>
    /\ UNCHANGED aggVars

\* doUpdateCRStatus, lines 130-145, for the result r of CR.Get
DoUpdateAfterGet(r) ==
    /\ hist' = [hist EXCEPT !.fetches = @ + 1,
                            !.fetchCall = hist.calls,
                            !.failedFetches = IF r.err = "nil" THEN @ ELSE @ + 1,
                            !.failedGet = IF r.err = "nil" THEN @ ELSE "fetch",
                            !.lastGetErr = r.err]
    /\ IF TypeAssertionPanics(r.obj)
       THEN /\ pc' = "panic"
            /\ ret' = "panic"
            /\ UNCHANGED <<err, cur>>
       ELSE /\ ret' = ret
            /\ IF r.err # "nil"
               THEN /\ err' = (IF opts.TolerateAbsence THEN "nil" ELSE r.err)
                    /\ pc' = "ret"
                    /\ cur' = cur
               ELSE IF IsNilPointer(r.obj)
               THEN /\ err' = (IF opts.TolerateAbsence THEN "nil" ELSE ErrNullReturned)
                    /\ pc' = "ret"
                    /\ cur' = cur
               ELSE /\ cur' = r.obj
                    /\ pc' = "do_update"
                    /\ err' = err

\* doUpdateCRStatus, line 130: the fetch of the persisted resource
DoUpdateGet ==
    /\ pc = "do_get"
    /\ \E r \in GetResults : DoUpdateAfterGet(r)
    /\ UNCHANGED <<ctxDone, attempt, retry, chk, opts>>
    /\ UNCHANGED aggVars

\* the fetched object handed to Update as it was fetched
MergedObject_NoMerge(fetched, local, o, keeps) == fetched

\* the object doUpdateCRStatus hands to Update, line 148; the status of the
\* object just fetched shares no slice with the local one
MergedObject(fetched, local, o, keeps) ==
    [fetched EXCEPT !.status =
        CopyFrom(fetched.status, local.status, {}, o.CopyStatusOptions, keeps).s]

\* doUpdateCRStatus, lines 148-155: merge the local status into the fetched
\* object and write it; merged is the object after line 148, e is the
\* outcome of kubeClient.Status().Update
DoUpdateWrite(e, merged) ==
    /\ cur' = merged
    /\ hist' = [hist EXCEPT !.writes = @ + 1,
                            !.writeCall = hist.calls,
                            !.preRV = cur.rv,
                            !.accepted = IF e = "nil" THEN @ + 1 ELSE @,
                            !.lastWriteErr = IF e = "nil" THEN @ ELSE e]
    /\ IF e # "nil"
       THEN /\ err' = e
            /\ pc' = "ret"
       ELSE /\ err' = e
            /\ pc' = "do_reget"

DoUpdateUpdate ==
    /\ pc = "do_update"
    /\ \E merged \in {MergedObject(cur, chk, opts, keeps) : keeps \in BOOLEAN} :
         \E e \in UpdateErrors \cup {"nil"} : DoUpdateWrite(e, merged)
    /\ UNCHANGED <<ctxDone, attempt, retry, ret, chk, opts>>
    /\ UNCHANGED aggVars

\* the comparison never propagating the re-fetched version
PropagateResourceVersion_Never(local, refetched, pre) == local

\* the comparison made against the version fetched before the write
PropagateResourceVersion_PreWrite(local, refetched, pre) ==
    IF pre # refetched.rv THEN [local EXCEPT !.rv = refetched.rv] ELSE local

\* doUpdateCRStatus, lines 161-169: the local resource after the comparison
\* of resource versions; pre is the version fetched before the write
PropagateResourceVersion(local, refetched, pre) ==
    IF local.rv # refetched.rv THEN [local EXCEPT !.rv = refetched.rv] ELSE local

\* doUpdateCRStatus, lines 157-169, for the result r of the second CR.Get
DoUpdateAfterReget(r) ==
    /\ hist' = [hist EXCEPT !.fetches = @ + 1,
                            !.failedFetches = IF r.err = "nil" THEN @ ELSE @ + 1,
                            !.lastGetErr = r.err,
                            !.failedGet = IF r.err = "nil" THEN @ ELSE "refetch",
                            !.reRV = IF r.err = "nil" THEN r.obj.rv ELSE @]
    /\ IF TypeAssertionPanics(r.obj)
       THEN /\ pc' = "panic"
            /\ ret' = "panic"
            /\ UNCHANGED <<err, cur, chk>>
       ELSE /\ ret' = ret
            /\ cur' = r.obj
            /\ err' = "nil"
            /\ chk' = PropagateResourceVersion(chk, r.obj, hist.preRV)
            /\ pc' = "ret"

DoUpdateReget ==
    /\ pc = "do_reget"
    /\ \E r \in GetResults : DoUpdateAfterReget(r)
    /\ UNCHANGED <<ctxDone, attempt, retry, opts>>
    /\ UNCHANGED aggVars

\* StatusUpdate retrying without the sleep of line 111
AfterAttempt_NoSleep ==
    /\ pc = "ret"
    /\ IF err = "nil"
       THEN /\ pc' = "done"
            /\ ret' = "nil"
            /\ attempt' = attempt
       ELSE /\ pc' = "loop"
            /\ attempt' = attempt + 1
            /\ ret' = ret
    /\ cur' = NoObject
    /\ hist' = (IF err = "nil" THEN hist ELSE [hist EXCEPT !.preRV = 0])
    /\ UNCHANGED <<ctxDone, retry, err, chk, opts>>
    /\ UNCHANGED aggVars

\* StatusUpdate, lines 105-114: doUpdateCRStatus has returned err
AfterAttempt ==
    /\ pc = "ret"
    /\ IF err = "nil"
       THEN /\ pc' = "done"
            /\ ret' = "nil"
            /\ attempt' = attempt
       ELSE IF retry
       THEN /\ pc' = "sleep"
            /\ UNCHANGED <<ret, attempt>>
       ELSE /\ pc' = "loop"
            /\ attempt' = attempt + 1
            /\ ret' = ret
    /\ cur' = NoObject
    /\ hist' = (IF err = "nil" THEN hist ELSE [hist EXCEPT !.preRV = 0])
    /\ UNCHANGED <<ctxDone, retry, err, chk, opts>>
    /\ UNCHANGED aggVars

\* StatusUpdate, line 111, and the loop's post statement
Sleep ==
    /\ pc = "sleep"
    /\ hist' = [hist EXCEPT !.sleeps = @ + 1, !.slept = @ + SleepSeconds]
    /\ attempt' = attempt + 1
    /\ pc' = "loop"
    /\ UNCHANGED <<ctxDone, retry, err, ret, chk, opts, cur>>
    /\ UNCHANGED aggVars

Next ==
    \/ Cancel
    \/ StatusUpdateEntry
    \/ LoopHead
    \/ DoUpdateCheckContext
    \/ DoUpdateGet
    \/ DoUpdateUpdate
    \/ DoUpdateReget
    \/ AfterAttempt
    \/ Sleep

Spec == Init /\ [][Next]_vars

----------------------------------------------------------------------------
(* Calls on the aggregates, one whole call per step *)

\* no StatusUpdate invocation
SyncIdle ==
    /\ pc = "none"
    /\ ctxDone = FALSE
    /\ attempt = 1
    /\ retry = TRUE
    /\ err = "nil"
    /\ ret = "none"
    /\ chk = NoObject
    /\ opts = NoObject
    /\ cur = NoObject
    /\ hist = NoHist

\* ten entries, newest first
FullHistory == <<10, 9, 8, 7, 6, 5, 4, 3, 2, 1>>

\* an aggregate in the middle of a reconciliation
StatusMidCycle ==
    [EmptyStatus EXCEPT
        !.CHOpVersion = VersionVersion, !.CHOpCommit = VersionGitSHA,
        !.CHOpDate = VersionBuiltAt, !.CHOpIP = 1,
        !.ClustersCount = 1, !.ShardsCount = 1, !.HostsCount = 2,
        !.Status = StatusInProgress, !.TaskID = 1,
        !.TaskIDsStarted = <<1>>,
        !.Action = 2, !.Actions = <<2, 1>>,
        !.Error = 1, !.Errors = <<1>>,
        !.HostsUpdatedCount = 1, !.HostsAddedCount = 2, !.HostsUnchangedCount = 1,
        !.HostsFailedCount = 1, !.HostsCompletedCount = 2, !.HostsDeletedCount = 1,
        !.HostsDeleteCount = 1,
        !.Pods = <<1, 2>>, !.PodIPs = <<1, 2>>,
        !.FQDNs = <<1, 2>>, !.FQDNsIsNil = FALSE,
        !.Endpoint = 1, !.NormalizedCR = 1, !.NormalizedCRCompleted = 2,
        !.HostsWithTablesCreated = <<1, 3>>,
        !.UsedTemplates = <<1>>]

\* an aggregate after many cycles: every bounded history is full
StatusFullHistories ==
    [StatusMidCycle EXCEPT
        !.Status = StatusCompleted, !.TaskID = 11,
        !.TaskIDsStarted = FullHistory, !.TaskIDsCompleted = FullHistory,
        !.Action = 0, !.Actions = FullHistory,
        !.Errors = FullHistory,
        !.FQDNs = <<>>, !.FQDNsIsNil = FALSE,
        !.HostsWithTablesCreated = <<1, 2>>]

\* tables recorded as created before any FQDN is known
StatusNoTopology ==
    [EmptyStatus EXCEPT !.HostsWithTablesCreated = <<1, 2>>, !.TaskID = 2,
                        !.HostsFailedCount = 1]

StatusSamples == {EmptyStatus, StatusMidCycle, StatusFullHistories, StatusNoTopology}

\* arguments of Fill
NoFillParams ==
    [CHOpIP |-> 0, ClustersCount |-> 0, ShardsCount |-> 0, HostsCount |-> 0,
     TaskID |-> 0, HostsUpdatedCount |-> 0, HostsAddedCount |-> 0,
     HostsUnchangedCount |-> 0, HostsCompletedCount |-> 0, HostsDeleteCount |-> 0,
     HostsDeletedCount |-> 0, Pods |-> <<>>, FQDNs |-> <<>>, FQDNsIsNil |-> TRUE,
     Endpoint |-> 0, NormalizedCR |-> 0]

FillParamsSamples ==
    {NoFillParams,
     [NoFillParams EXCEPT !.FQDNsIsNil = FALSE, !.TaskID = 3],
     [NoFillParams EXCEPT !.CHOpIP = 2, !.ClustersCount = 1, !.ShardsCount = 2,
                          !.HostsCount = 4, !.TaskID = 2,
                          !.HostsUpdatedCount = 1, !.HostsAddedCount = 3,
                          !.HostsDeleteCount = 1,
                          !.Pods = <<1, 2>>, !.FQDNs = <<2, 3>>, !.FQDNsIsNil = FALSE,
                          !.Endpoint = 2, !.NormalizedCR = 2]}

\* strings pushed and set by the callers
PushItems == {1, 2}

\* switch combinations of CopyFrom exercised between the mutators
CopyOptionsBetweenMutators ==
    {[NoCopyOptions EXCEPT !.Actions = TRUE],
     [NoCopyOptions EXCEPT !.Errors = TRUE],
     [NoCopyOptions EXCEPT !.InheritableFields = TRUE],
     [NoCopyOptions EXCEPT !.MainFields = TRUE],
     [NoCopyOptions EXCEPT !.WholeStatus = TRUE]}

InitStatus ==
    /\ SyncIdle
    /\ agg \in {[a \in Aggs |-> IF a = "A" THEN x ELSE y] :
                    x \in StatusSamples \cup {NilStatus},
                    y \in {StatusMidCycle, NilStatus}}
    /\ mu = [a \in Aggs |-> FreeMutex]
    /\ wk = [w \in Workers |-> IdleWorker]
    /\ obs = [NoObs EXCEPT !.before = agg, !.prevBefore = agg]
    /\ shared = {}

\* one whole call of a mutator on aggregate a, lock taken and released
\* within the call; after is the receiver when the call returns
Called(opname, a, arg, after) ==
    /\ obs.steps < MaxSteps
    /\ agg' = [agg EXCEPT ![a] = after]
    /\ obs' = [obs EXCEPT !.op = opname, !.target = a, !.source = "none",
                          !.arg = arg, !.before = agg, !.steps = @ + 1,
                          !.prevOp = obs.op, !.prevBefore = obs.before]
    /\ shared' = IF IsNilStatus(agg[a]) THEN shared ELSE shared \ Reallocated(opname)
    /\ UNCHANGED <<mu, wk>>
    /\ UNCHANGED syncVars

CallFill == \E p \in FillParamsSamples : Called("Fill", "A", p, Fill(agg["A"], p))

CallSetError == \E e \in PushItems : Called("SetError", "A", e, SetError(agg["A"], e))

CallSetAndPushError ==
    \E e \in PushItems : Called("SetAndPushError", "A", e, SetAndPushError(agg["A"], e))

CallPushHostTablesCreated ==
    \E h \in PushItems :
        Called("PushHostTablesCreated", "A", h, PushHostTablesCreated(agg["A"], h))

CallSyncHostTablesCreated ==
    Called("SyncHostTablesCreated", "A", 0, SyncHostTablesCreated(agg["A"]))

CallPushUsedTemplate == Called("PushUsedTemplate", "A", 2, PushUsedTemplate(agg["A"], 2))

CallSetAction == \E x \in PushItems : Called("SetAction", "A", x, SetAction(agg["A"], x))

CallPushAction == \E x \in PushItems : Called("PushAction", "A", x, PushAction(agg["A"], x))

CallPushError == \E e \in PushItems : Called("PushError", "A", e, PushError(agg["A"], e))

CallSetPodIPs == Called("SetPodIPs", "A", <<3>>, SetPodIPs(agg["A"], <<3>>))

CallHostDeleted == Called("HostDeleted", "A", 0, HostDeleted(agg["A"]))

CallHostUpdated == Called("HostUpdated", "A", 0, HostUpdated(agg["A"]))

CallHostAdded == Called("HostAdded", "A", 0, HostAdded(agg["A"]))

CallHostUnchanged == Called("HostUnchanged", "A", 0, HostUnchanged(agg["A"]))

CallHostFailed == Called("HostFailed", "A", 0, HostFailed(agg["A"]))

CallHostCompleted == Called("HostCompleted", "A", 0, HostCompleted(agg["A"]))

CallReconcileStart ==
    \E n \in {0, 2} : Called("ReconcileStart", "A", n, ReconcileStart(agg["A"], n))

CallReconcileComplete == Called("ReconcileComplete", "A", 0, ReconcileComplete(agg["A"]))

CallReconcileAbort == Called("ReconcileAbort", "A", 0, ReconcileAbort(agg["A"]))

CallDeleteStart == Called("DeleteStart", "A", 0, DeleteStart(agg["A"]))

CallClearNormalizedCR == Called("ClearNormalizedCR", "A", 0, ClearNormalizedCR(agg["A"]))

CallSetNormalizedCompletedFromCurrentNormalized ==
    Called("SetNormalizedCompletedFromCurrentNormalized", "A", 0,
           SetNormalizedCompletedFromCurrentNormalized(agg["A"]))

\* d.CopyFrom(s, o): both locks are taken and released within the call
CopyFromCalled(d, s, o) ==
    /\ obs.steps < MaxSteps
    /\ d # s
    /\ \E keeps \in BOOLEAN :
         \E r \in {CopyFrom(agg[d], agg[s], shared, o, keeps)} :
             /\ agg' = [agg EXCEPT ![d] = r.s, ![s] = r.from]
             /\ shared' = r.sh
    /\ obs' = [obs EXCEPT !.op = "CopyFrom", !.target = d, !.source = s,
                          !.arg = o, !.before = agg, !.steps = @ + 1,
                          !.prevOp = obs.op, !.prevBefore = obs.before]
    /\ UNCHANGED <<mu, wk>>
    /\ UNCHANGED syncVars

CallCopyFrom ==
    \E d \in Aggs, s \in Aggs, o \in CopyOptionsBetweenMutators : CopyFromCalled(d, s, o)

NextStatus ==
    \/ CallFill
    \/ CallSetError
    \/ CallSetAndPushError
    \/ CallPushHostTablesCreated
    \/ CallSyncHostTablesCreated
    \/ CallPushUsedTemplate
    \/ CallSetAction
    \/ CallPushAction
    \/ CallPushError
    \/ CallSetPodIPs
    \/ CallHostDeleted
    \/ CallHostUpdated
    \/ CallHostAdded
    \/ CallHostUnchanged
    \/ CallHostFailed
    \/ CallHostCompleted
    \/ CallReconcileStart
    \/ CallReconcileComplete
    \/ CallReconcileAbort
    \/ CallDeleteStart
    \/ CallClearNormalizedCR
    \/ CallSetNormalizedCompletedFromCurrentNormalized
    \/ CallCopyFrom

SpecStatus == InitStatus /\ [][NextStatus]_vars

----------------------------------------------------------------------------
(* CopyFrom between two aggregates, under every combination of switches *)

\* CopyFrom calls in one behaviour of SpecCopy
MaxCopies == 1

AllCopyOptions ==
    [InheritableFields : BOOLEAN, Actions : BOOLEAN, Errors : BOOLEAN,
     MainFields : BOOLEAN, Normalized : BOOLEAN, WholeStatus : BOOLEAN]

\* the same error pushed twice
StatusRepeatedError ==
    [StatusNoTopology EXCEPT !.Error = 2, !.Errors = <<2, 2, 1>>,
                             !.Action = 1, !.Actions = <<1, 1>>]

\* an aggregate of a later cycle, with its own histories and snapshots
StatusLaterCycle ==
    [StatusMidCycle EXCEPT
        !.CHOpIP = 2, !.HostsCount = 3, !.Status = StatusAborted, !.TaskID = 12,
        !.TaskIDsStarted = <<12, 11>>, !.TaskIDsCompleted = <<12>>,
        !.Action = 13, !.Actions = <<13, 12, 11, 2>>,
        !.Error = 15, !.Errors = <<15, 14, 13, 12, 11, 10>>,
        !.HostsUpdatedCount = 0, !.HostsAddedCount = 3, !.HostsFailedCount = 2,
        !.Pods = <<3>>, !.PodIPs = <<3>>, !.FQDNs = <<3>>, !.Endpoint = 2,
        !.NormalizedCR = 3, !.NormalizedCRCompleted = 3,
        !.HostsWithTablesCreated = <<3>>, !.UsedTemplates = <<2, 3>>]

\* actions and errors pushed in an order that is not the order of the strings
StatusUnsortedHistories ==
    [StatusMidCycle EXCEPT !.Action = 2, !.Actions = <<2, 3, 1>>,
                           !.Error = 1, !.Errors = <<1, 3, 2>>,
                           !.HostsFailedCount = 3]

InitCopy ==
    /\ SyncIdle
    /\ agg \in {[a \in Aggs |-> IF a = "A" THEN x ELSE y] :
                    x \in {EmptyStatus, StatusMidCycle, StatusFullHistories,
                           StatusRepeatedError},
                    y \in {EmptyStatus, StatusMidCycle, StatusLaterCycle,
                           StatusUnsortedHistories}}
    /\ mu = [a \in Aggs |-> FreeMutex]
    /\ wk = [w \in Workers |-> IdleWorker]
    /\ obs = [NoObs EXCEPT !.before = agg, !.prevBefore = agg]
    /\ shared = {}

\* d.CopyFrom(s, o) as one step
CopyFromApplied(d, s, o) ==
    /\ obs.steps < MaxCopies
    /\ d # s
    /\ \E keeps \in BOOLEAN :
         \E r \in {CopyFrom(agg[d], agg[s], shared, o, keeps)} :
             /\ agg' = [agg EXCEPT ![d] = r.s, ![s] = r.from]
             /\ shared' = r.sh
    /\ obs' = [obs EXCEPT !.op = "CopyFrom", !.target = d, !.source = s,
                          !.arg = o, !.before = agg, !.steps = @ + 1,
                          !.prevOp = obs.op, !.prevBefore = obs.before]
    /\ UNCHANGED <<mu, wk>>
    /\ UNCHANGED syncVars

ApplyCopyFrom == \E d \in Aggs, s \in Aggs, o \in AllCopyOptions : CopyFromApplied(d, s, o)

NextCopy == ApplyCopyFrom

SpecCopy == InitCopy /\ [][NextCopy]_vars

----------------------------------------------------------------------------
(* Concurrent calls: the locks are taken in steps of their own *)

\* PushAction calls in one behaviour of SpecPushAction, PushError and
\* SetAndPushError calls in one behaviour of SpecPushError
MaxPush == 11

\* PushAction calls in one behaviour of SpecPushError
MaxOtherPush == 2

\* CopyFrom calls in one behaviour of SpecLock
MaxLockCalls == 2

InitWorkers ==
    /\ SyncIdle
    /\ AggIdle

\* worker w calls agg["A"].PushAction(x): doWithWriteLock finds the
\* receiver non-nil and goes on to s.mu.Lock()
BeginPushAction(w, x) ==
    /\ wk[w].pc = "idle"
    /\ obs.steps < MaxPush
    /\ ~IsNilStatus(agg["A"])
    /\ wk' = [wk EXCEPT ![w] = [pc |-> "lock", op |-> "PushAction", arg |-> x,
                                dst |-> "A", src |-> "none"]]
    /\ obs' = [obs EXCEPT !.steps = @ + 1]
    /\ UNCHANGED <<agg, mu, shared>>
    /\ UNCHANGED syncVars

CallPushActionConcurrently == \E w \in Workers, x \in PushItems : BeginPushAction(w, x)

\* worker w calls agg[d].CopyFrom(agg[s], o) and goes on to s.mu.Lock()
BeginCopyFrom(w, d, s, o) ==
    /\ wk[w].pc = "idle"
    /\ obs.steps < MaxLockCalls
    /\ d # s
    /\ ~IsNilStatus(agg[d])
    /\ ~IsNilStatus(agg[s])
    /\ wk' = [wk EXCEPT ![w] = [pc |-> "lock", op |-> "CopyFrom", arg |-> o,
                                dst |-> d, src |-> s]]
    /\ obs' = [obs EXCEPT !.steps = @ + 1]
    /\ UNCHANGED <<agg, mu, shared>>
    /\ UNCHANGED syncVars

CallCopyFromConcurrently ==
    \E w \in Workers, d \in Aggs, s \in Aggs, o \in CopyOptionsBetweenMutators :
        BeginCopyFrom(w, d, s, o)

\* doWithWriteLock: s.mu.Lock() returns once nobody holds the mutex
WriteLock(w) ==
    /\ wk[w].pc = "lock"
    /\ mu[wk[w].dst].writer = "none"
    /\ mu[wk[w].dst].readers = {}
    /\ mu' = [mu EXCEPT ![wk[w].dst].writer = w]
    /\ wk' = [wk EXCEPT ![w].pc = IF wk[w].op = "CopyFrom" THEN "rlock" ELSE "body"]
    /\ obs' = [obs EXCEPT !.actLog = IF wk[w].op = "PushAction"
                                     THEN Append(@, wk[w].arg) ELSE @]
    /\ UNCHANGED <<agg, shared>>
    /\ UNCHANGED syncVars

AcquireWriteLock == \E w \in Workers : WriteLock(w)

\* doWithReadLock inside the write-locked body of CopyFrom: f.mu.RLock()
\* returns once no writer holds the mutex of the source
ReadLock(w) ==
    /\ wk[w].pc = "rlock"
    /\ mu[wk[w].src].writer = "none"
    /\ mu' = [mu EXCEPT ![wk[w].src].readers = @ \cup {w}]
    /\ wk' = [wk EXCEPT ![w].pc = "body"]
    /\ UNCHANGED <<agg, obs, shared>>
    /\ UNCHANGED syncVars

AcquireReadLock == \E w \in Workers : ReadLock(w)

\* the body of PushAction under the write lock, and the deferred Unlock
PushActionBody(w) ==
    /\ wk[w].pc = "body"
    /\ wk[w].op = "PushAction"
    /\ agg' = [agg EXCEPT ![wk[w].dst] = PushAction(@, wk[w].arg)]
    /\ mu' = [mu EXCEPT ![wk[w].dst].writer = "none"]
    /\ wk' = [wk EXCEPT ![w] = IdleWorker]
    /\ shared' = shared \ Reallocated("PushAction")
    /\ UNCHANGED obs
    /\ UNCHANGED syncVars

RunPushAction == \E w \in Workers : PushActionBody(w)

\* the body of CopyFrom under both locks, and the deferred f.mu.RUnlock() of
\* doWithReadLock; the write lock of the receiver is still held
CopyFromBody(w) ==
    /\ wk[w].pc = "body"
    /\ wk[w].op = "CopyFrom"
    /\ \E keeps \in BOOLEAN :
         \E r \in {CopyFrom(agg[wk[w].dst], agg[wk[w].src], shared, wk[w].arg, keeps)} :
             /\ agg' = [agg EXCEPT ![wk[w].dst] = r.s, ![wk[w].src] = r.from]
             /\ shared' = r.sh
    /\ mu' = [mu EXCEPT ![wk[w].src].readers = @ \ {w}]
    /\ wk' = [wk EXCEPT ![w].pc = "unlock"]
    /\ obs' = [obs EXCEPT !.op = "CopyFrom", !.target = wk[w].dst, !.source = wk[w].src]
    /\ UNCHANGED syncVars

RunCopyFrom == \E w \in Workers : CopyFromBody(w)

\* the deferred s.mu.Unlock() of doWithWriteLock, after which CopyFrom returns
WriteUnlock(w) ==
    /\ wk[w].pc = "unlock"
    /\ mu[wk[w].dst].writer = w
    /\ mu' = [mu EXCEPT ![wk[w].dst].writer = "none"]
    /\ wk' = [wk EXCEPT ![w] = IdleWorker]
    /\ UNCHANGED <<agg, obs, shared>>
    /\ UNCHANGED syncVars

NextPushAction ==
    \/ CallPushActionConcurrently
    \/ AcquireWriteLock
    \/ RunPushAction

SpecPushAction == InitWorkers /\ [][NextPushAction]_vars

InitLock ==
    /\ SyncIdle
    /\ agg = [a \in Aggs |-> IF a = "A" THEN StatusMidCycle ELSE StatusLaterCycle]
    /\ mu = [a \in Aggs |-> FreeMutex]
    /\ wk = [w \in Workers |-> IdleWorker]
    /\ obs = NoObs
    /\ shared = {}

NextLock ==
    \/ CallCopyFromConcurrently
    \/ AcquireWriteLock
    \/ AcquireReadLock
    \/ RunCopyFrom
    \/ \E w \in Workers : WriteUnlock(w)

SpecLock == InitLock /\ [][NextLock]_vars

----------------------------------------------------------------------------
(* Pushes on one aggregate, from its construction on *)

\* one whole call of PushError or SetAndPushError on agg["A"]
ErrorPushed(e, after) ==
    /\ Len(obs.errLog) < MaxPush
    /\ agg' = [agg EXCEPT !["A"] = after]
    /\ obs' = [obs EXCEPT !.errLog = Append(@, e)]
    /\ shared' = shared \ Reallocated("PushError")
    /\ UNCHANGED <<mu, wk>>
    /\ UNCHANGED syncVars

PushErrorFromEmpty == \E e \in PushItems : ErrorPushed(e, PushError(agg["A"], e))

SetAndPushErrorFromEmpty ==
    \E e \in PushItems : ErrorPushed(e, SetAndPushError(agg["A"], e))

\* one whole call of PushAction on agg["A"]
ActionPushed(x) ==
    /\ Len(obs.actLog) < MaxOtherPush
    /\ agg' = [agg EXCEPT !["A"] = PushAction(@, x)]
    /\ obs' = [obs EXCEPT !.actLog = Append(@, x)]
    /\ shared' = shared \ Reallocated("PushAction")
    /\ UNCHANGED <<mu, wk>>
    /\ UNCHANGED syncVars

PushActionFromEmpty == \E x \in PushItems : ActionPushed(x)

NextPushError ==
    \/ PushErrorFromEmpty
    \/ SetAndPushErrorFromEmpty
    \/ PushActionFromEmpty

SpecPushError == InitWorkers /\ [][NextPushError]_vars

----------------------------------------------------------------------------
(* Histories of two aggregates, from their construction on *)

\* reconciliation cycles run on one aggregate in one behaviour of SpecHistory
MaxCycles == 10

\* The action pushed on aggregate a in its k-th cycle.  Action strings begin
\* with the time of the push: the one of a later cycle is the greater, and
\* the two aggregates never push the same string (odd numbers on "A", even
\* numbers on "B").
ActionOfCycle(a, k) == IF a = "A" THEN 2 * k - 1 ELSE 2 * k

\* One call of a reconciliation cycle on agg[a]; after is the receiver after
\* it.  The cycles run until a call is made out of their order.
CycleCall(opname, a, after) ==
    /\ obs.op = "none"
    /\ agg' = [agg EXCEPT ![a] = after]
    /\ shared' = shared \ Reallocated(opname)
    /\ UNCHANGED <<mu, wk, obs>>
    /\ UNCHANGED syncVars

\* A cycle begins with Fill, which brings the task id of the cycle, once the
\* cycle before it is completed and while the other aggregate is in no cycle.
CycleFill(a) ==
    /\ \A b \in Aggs :
           agg[b].TaskID = 0 \/ Take(agg[b].TaskIDsCompleted, 1) = <<agg[b].TaskID>>
    /\ agg[a].TaskID < MaxCycles
    /\ CycleCall("Fill", a, Fill(agg[a], [NoFillParams EXCEPT !.TaskID = agg[a].TaskID + 1]))

\* the task id of the cycle is not in the started history yet
CycleReconcileStart(a) ==
    /\ agg[a].TaskID > 0
    /\ Take(agg[a].TaskIDsStarted, 1) # <<agg[a].TaskID>>
    /\ CycleCall("ReconcileStart", a, ReconcileStart(agg[a], 0))

\* the cycle is started and its action is not pushed yet
CyclePushAction(a) ==
    /\ Take(agg[a].TaskIDsStarted, 1) = <<agg[a].TaskID>>
    /\ Take(agg[a].TaskIDsCompleted, 1) # <<agg[a].TaskID>>
    /\ Take(agg[a].Actions, 1) # <<ActionOfCycle(a, agg[a].TaskID)>>
    /\ CycleCall("PushAction", a, PushAction(agg[a], ActionOfCycle(a, agg[a].TaskID)))

\* the action of the cycle is pushed: the cycle completes
CycleReconcileComplete(a) ==
    /\ Take(agg[a].TaskIDsStarted, 1) = <<agg[a].TaskID>>
    /\ Take(agg[a].TaskIDsCompleted, 1) # <<agg[a].TaskID>>
    /\ Take(agg[a].Actions, 1) = <<ActionOfCycle(a, agg[a].TaskID)>>
    /\ CycleCall("ReconcileComplete", a, ReconcileComplete(agg[a]))

\* a call of a mutator on agg[a] at any point of the cycles of the two
\* aggregates; after is the receiver after it
HistoryStep(opname, a, after) ==
    /\ obs.op = "none"
    /\ agg' = [agg EXCEPT ![a] = after]
    /\ obs' = [obs EXCEPT !.op = opname, !.target = a]
    /\ shared' = shared \ Reallocated(opname)
    /\ UNCHANGED <<mu, wk>>
    /\ UNCHANGED syncVars

\* d.CopyFrom(s, o), o any of switches, at any point of the cycles of the two
\* aggregates
HistoryCopy(d, s, switches) ==
    /\ obs.op = "none"
    /\ d # s
    /\ \E r \in {CopyFrom(agg[d], agg[s], shared, o, keeps) :
                     o \in switches, keeps \in BOOLEAN} :
           /\ agg' = [agg EXCEPT ![d] = r.s, ![s] = r.from]
           /\ shared' = r.sh
    /\ obs' = [obs EXCEPT !.op = "CopyFrom", !.target = d, !.source = s]
    /\ UNCHANGED <<mu, wk>>
    /\ UNCHANGED syncVars

\* The two aggregates are reconciled cycle after cycle (Fill,
\* ReconcileStart, PushAction, ReconcileComplete), one cycle at a time, the
\* cycles of the two in any order.  At any point of that, in a cycle or
\* between two, any mutator is called on either of them, or either copies
\* from the other under any combination of switches; that call is the last
\* of the behaviour.
NextHistory ==
    \/ \E a \in Aggs : CycleFill(a)
    \/ \E a \in Aggs : CycleReconcileStart(a)
    \/ \E a \in Aggs : CyclePushAction(a)
    \/ \E a \in Aggs : CycleReconcileComplete(a)
    \/ \E a \in Aggs :
         \E x \in PushItems \cup {ActionOfCycle(a, agg[a].TaskID + 1)} :
             HistoryStep("PushAction", a, PushAction(agg[a], x))
    \/ \E a \in Aggs, x \in PushItems : HistoryStep("PushError", a, PushError(agg[a], x))
    \/ \E a \in Aggs, x \in PushItems :
           HistoryStep("SetAndPushError", a, SetAndPushError(agg[a], x))
    \/ \E a \in Aggs, x \in PushItems :
           HistoryStep("PushHostTablesCreated", a, PushHostTablesCreated(agg[a], x))
    \/ \E a \in Aggs, x \in PushItems :
           HistoryStep("PushUsedTemplate", a, PushUsedTemplate(agg[a], x))
    \/ \E a \in Aggs, params \in FillParamsSamples :
           HistoryStep("Fill", a, Fill(agg[a], params))
    \/ \E a \in Aggs : HistoryStep("ReconcileStart", a, ReconcileStart(agg[a], 0))
    \/ \E a \in Aggs : HistoryStep("ReconcileComplete", a, ReconcileComplete(agg[a]))
    \/ \E a \in Aggs : HistoryStep("ReconcileAbort", a, ReconcileAbort(agg[a]))
    \/ \E a \in Aggs : HistoryStep("DeleteStart", a, DeleteStart(agg[a]))
    \/ \E d \in Aggs, s \in Aggs : HistoryCopy(d, s, AllCopyOptions)

SpecHistory == InitWorkers /\ [][NextHistory]_vars

----------------------------------------------------------------------------
(* Properties of the status update protocol *)

Terminated == pc \in {"done", "panic"}

\* C1: StatusUpdate invoked with a context that is already done returns nil
\* at once: doUpdateCRStatus is not called, the store is neither read nor
\* written, and the caller's local resource is what it was.
C1_CancelledAtEntry ==
    hist.ctxAtEntry =>
        /\ pc = "done"
        /\ ret = "nil"
        /\ hist.calls = 0
        /\ hist.fetches = 0
        /\ hist.writes = 0
        /\ hist.sleeps = 0
        /\ chk = hist.chk0

C1_Witness == pc = "done" /\ hist.ctxAtEntry /\ ret = "nil"

\* C2: one StatusUpdate invocation calls doUpdateCRStatus at most 60 times.
C2_AtMostSixtyAttempts == hist.calls <= MaxAttempt

\* C3: when the invocation ends after a write the store accepted, every
\* earlier attempt was a failed write, the result is nil, and there was one
\* sleep of one second per failed write and none after the accepted one.
C3_SleepsPerFailedWrite ==
    (pc = "done" /\ hist.accepted > 0) =>
        /\ ret = "nil"
        /\ hist.calls = hist.writes
        /\ hist.sleeps = hist.writes - 1
        /\ hist.slept = hist.sleeps * SleepSeconds

\* the scenario of three conflicts followed by an accepted write
C3_Witness ==
    /\ pc = "done"
    /\ hist.accepted = 1
    /\ hist.writes = 4
    /\ hist.sleeps = 3
    /\ ret = "nil"

\* C4: when every attempt reached the write and every write failed, the
\* invocation ends once the attempt counter has passed the ceiling, returns
\* the error of the last write, and has not slept after the last attempt.
C4_ExhaustionReturnsLastWriteError ==
    (pc = "done" /\ hist.accepted = 0 /\ hist.writes = hist.calls /\ hist.calls > 0) =>
        /\ ret = hist.lastWriteErr
        /\ ret \in UpdateErrors
        /\ attempt > MaxAttempt
        /\ hist.sleeps = hist.calls - 1

C4_Witness ==
    /\ pc = "done"
    /\ hist.accepted = 0
    /\ hist.writes = hist.calls
    /\ ret = "update: timeout"
    /\ hist.sleeps = hist.calls - 1
    /\ hist.calls > 1

\* C5: when the fetch fails and absence is not tolerated, the invocation
\* ends by returning that fetch error, the failed fetch being the last
\* contact with the store: no write, no sleep and no attempt follows it.
C5_FetchErrorReported ==
    (Terminated /\ hist.failedGet = "fetch" /\ ~opts.TolerateAbsence) =>
        /\ pc = "done"
        /\ ret = hist.lastGetErr
        /\ hist.fetchCall = hist.calls
        /\ hist.writeCall < hist.calls

\* C6: when the fetch fails and absence is tolerated, the invocation ends
\* by returning nil, without a write in that attempt and with the caller's
\* local resource unchanged.
C6_FetchErrorTolerated ==
    (Terminated /\ hist.failedGet = "fetch" /\ opts.TolerateAbsence) =>
        /\ pc = "done"
        /\ ret = "nil"
        /\ hist.writeCall < hist.calls
        /\ chk = hist.chk0

\* C8: a call of doUpdateCRStatus that finds the context done returns nil
\* without reading or writing the store, and StatusUpdate then returns nil
\* although no write was accepted; the attempts before it each made their
\* fetch and their write.
C8_CancelSkipsNextAttempt ==
    /\ [][(pc = "do_ctx" /\ ctxDone /\ pc' # pc) =>
            /\ pc' = "ret"
            /\ err' = "nil"
            /\ hist'.fetches = hist.fetches
            /\ hist'.writes = hist.writes
            /\ chk' = chk]_vars
    /\ []((pc = "done" /\ hist.ctxSkips > 0) =>
            /\ ret = "nil"
            /\ hist.accepted = 0
            /\ hist.writes = hist.calls - 1
            /\ hist.fetches = hist.calls - 1)

\* cancelled after a failed write: the second attempt was skipped
C8_Witness ==
    /\ pc = "done"
    /\ ~hist.ctxAtEntry
    /\ hist.ctxSkips = 1
    /\ hist.calls = 2
    /\ hist.writes = 1
    /\ hist.sleeps = 1
    /\ ret = "nil"

\* C9: a nil return that follows an accepted write was preceded by exactly
\* one re-fetch, and the local object then carries the resource version of
\* the re-fetched object; the local status is untouched.
C9_VersionPropagated ==
    (pc = "done" /\ hist.accepted > 0) =>
        /\ ret = "nil"
        /\ hist.fetches = hist.writes + 1
        /\ chk.rv = hist.reRV
        /\ chk.status = hist.chk0.status

\* the re-fetched version differed and was copied
C9_Witness ==
    /\ pc = "done"
    /\ hist.accepted > 0
    /\ chk.rv # hist.chk0.rv
    /\ chk.rv = hist.reRV

\* C10 as stated: when the re-fetched version equals the version fetched
\* before the write, the local version is left unchanged.
C10_ComparedToPreWriteVersion ==
    (pc = "done" /\ hist.accepted > 0 /\ hist.reRV = hist.preRV) =>
        (ret = "nil" /\ chk.rv = hist.chk0.rv)

\* C10 amended: the re-fetched version is compared to the local object's
\* version.  When they are equal the invocation returns nil with the local
\* version unchanged and without another attempt; when the re-fetched
\* version equals the one fetched before the write but not the local one,
\* the local version is overwritten all the same.
C10_ComparedToLocalVersion ==
    (pc = "done" /\ hist.accepted > 0) =>
        /\ ret = "nil"
        /\ hist.accepted = 1
        /\ hist.writeCall = hist.calls
        /\ (hist.reRV = hist.chk0.rv => chk.rv = hist.chk0.rv)
        /\ (hist.reRV = hist.preRV /\ hist.reRV # hist.chk0.rv =>
                chk.rv = hist.preRV /\ chk.rv # hist.chk0.rv)

\* stale read after the write with an older local version
C10_Witness ==
    /\ pc = "done"
    /\ hist.accepted = 1
    /\ hist.reRV = hist.preRV
    /\ hist.reRV # hist.chk0.rv
    /\ chk.rv = hist.preRV

----------------------------------------------------------------------------
(* Properties of the Status aggregate *)

Range(arr) == {arr[i] : i \in 1..Len(arr)}

NoDuplicates(arr) == \A i, j \in 1..Len(arr) : arr[i] = arr[j] => i = j

\* new is old with x put in front and the entries beyond cap dropped
PushedOnto(new, x, old, cap) ==
    /\ Len(new) = (IF Len(old) + 1 > cap THEN cap ELSE Len(old) + 1)
    /\ new[1] = x
    /\ \A i \in 2..Len(new) : new[i] = old[i - 1]

\* the receiver of the last call, before and after it
Before == obs.before[obs.target]
After == agg[obs.target]

\* the last call was opname on an existing aggregate
LastCall(opname) == obs.op = opname /\ ~IsNilStatus(obs.before[obs.target])

HostCounters ==
    {"HostsUpdatedCount", "HostsAddedCount", "HostsUnchangedCount", "HostsFailedCount",
     "HostsCompletedCount", "HostsDeletedCount", "HostsDeleteCount"}

\* C13: SyncHostTablesCreated with the FQDN list unset changes nothing; with
\* the list set (also when it is empty) the table-created set becomes the
\* intersection of its contents with the FQDN list, nothing else changes,
\* and a second application changes nothing more.
C13_SyncHostTablesCreated ==
    LastCall("SyncHostTablesCreated") =>
        /\ agg = [obs.before EXCEPT ![obs.target] = After]
        /\ IF Before.FQDNsIsNil
           THEN After = Before
           ELSE /\ After = [Before EXCEPT !.HostsWithTablesCreated =
                                             After.HostsWithTablesCreated]
                /\ Range(After.HostsWithTablesCreated) =
                       Range(Before.HostsWithTablesCreated) \cap Range(Before.FQDNs)
                /\ NoDuplicates(Before.HostsWithTablesCreated) =>
                       NoDuplicates(After.HostsWithTablesCreated)
        /\ SyncHostTablesCreated(After) = After

\* a host that is no FQDN any more was dropped
C13_Witness ==
    /\ LastCall("SyncHostTablesCreated")
    /\ ~Before.FQDNsIsNil
    /\ Before.HostsWithTablesCreated = <<1, 3>>
    /\ After.HostsWithTablesCreated = <<1>>

\* C15: ReconcileStart directly followed by ReconcileComplete puts the
\* current task id in front of the started history (in the first call) and
\* in front of the completed history (in the second call), moves the older
\* entries down by one and keeps each history at ten entries at most.
C15_StartThenComplete ==
    (LastCall("ReconcileComplete") /\ obs.prevOp = "ReconcileStart") =>
        LET s0 == obs.prevBefore[obs.target]
            s1 == Before
            s2 == After
        IN  /\ s2.TaskID = s0.TaskID
            /\ PushedOnto(s1.TaskIDsStarted, s2.TaskID, s0.TaskIDsStarted, 10)
            /\ s1.TaskIDsCompleted = s0.TaskIDsCompleted
            /\ s2.TaskIDsStarted = s1.TaskIDsStarted
            /\ PushedOnto(s2.TaskIDsCompleted, s2.TaskID, s0.TaskIDsCompleted, 10)

\* both histories were full: the oldest entry of each was dropped
C15_Witness ==
    /\ LastCall("ReconcileComplete")
    /\ obs.prevOp = "ReconcileStart"
    /\ obs.prevBefore[obs.target].TaskIDsStarted = FullHistory
    /\ After.TaskIDsStarted = <<11, 10, 9, 8, 7, 6, 5, 4, 3, 2>>
    /\ After.TaskIDsCompleted = <<11, 10, 9, 8, 7, 6, 5, 4, 3, 2>>

\* C16: immediately after ReconcileStart, from any prior state and for any
\* argument, the updated, added, unchanged, failed, completed, deleted and
\* to-delete host counters are all 0.  Taken at the argument 0: the call
\* sets the to-delete counter to its argument, so that with 0 only the
\* reset of the counters themselves is left to decide the claim.
C16_AllCountersZero ==
    (LastCall("ReconcileStart") /\ obs.arg = 0) =>
        \A c \in HostCounters : After[c] = 0

\* the last call may overwrite the host counters wholesale
OverwritesCounters ==
    \/ obs.op \in {"ReconcileStart", "DeleteStart", "Fill"}
    \/ obs.op = "CopyFrom" /\ (obs.arg.MainFields \/ obs.arg.WholeStatus)

\* C17 as stated: no call other than ReconcileStart and DeleteStart lowers
\* a host counter.
C17_OnlyStartsLowerCounters ==
    (obs.steps > 0 /\ ~IsNilStatus(Before) /\ obs.op \notin {"ReconcileStart", "DeleteStart"}) =>
        \A c \in HostCounters : After[c] >= Before[c]

\* C17 amended: no call other than ReconcileStart, DeleteStart, Fill and
\* CopyFrom with MainFields or WholeStatus lowers a host counter; each of
\* the Host* calls raises its own counter by one.
C17_CountersMonotonic ==
    (obs.steps > 0 /\ ~IsNilStatus(Before)) =>
        /\ ~OverwritesCounters => \A c \in HostCounters : After[c] >= Before[c]
        /\ obs.op = "HostDeleted" => After.HostsDeletedCount = Before.HostsDeletedCount + 1
        /\ obs.op = "HostUpdated" => After.HostsUpdatedCount = Before.HostsUpdatedCount + 1
        /\ obs.op = "HostAdded" => After.HostsAddedCount = Before.HostsAddedCount + 1
        /\ obs.op = "HostUnchanged" =>
               After.HostsUnchangedCount = Before.HostsUnchangedCount + 1
        /\ obs.op = "HostFailed" => After.HostsFailedCount = Before.HostsFailedCount + 1
        /\ obs.op = "HostCompleted" =>
               After.HostsCompletedCount = Before.HostsCompletedCount + 1

\* a counter raised by a Host* call while another counter stands above 0
C17_Witness ==
    /\ LastCall("HostDeleted")
    /\ Before.HostsDeleteCount > 0
    /\ After.HostsDeletedCount = Before.HostsDeletedCount + 1
    /\ After.HostsDeleteCount = Before.HostsDeleteCount

\* every accessor on s gives the zero value
AccessorsGiveZero(s) ==
    /\ GetStatus(s) = ""
    /\ GetTaskID(s) = 0
    /\ GetAction(s) = 0
    /\ GetError(s) = 0
    /\ GetEndpoint(s) = 0
    /\ GetTaskIDsStarted(s) = <<>>
    /\ GetTaskIDsCompleted(s) = <<>>
    /\ GetActions(s) = <<>>
    /\ StatusGetErrors(s) = <<>>
    /\ GetPods(s) = <<>>
    /\ GetPodIPs(s) = <<>>
    /\ GetFQDNs(s) = <<>>
    /\ GetHostsWithTablesCreated(s) = <<>>
    /\ GetUsedTemplatesCount(s) = 0
    /\ GetHostsCount(s) = 0
    /\ GetHostsUpdatedCount(s) = 0
    /\ GetHostsAddedCount(s) = 0
    /\ GetHostsUnchangedCount(s) = 0
    /\ GetHostsFailedCount(s) = 0
    /\ GetHostsCompletedCount(s) = 0
    /\ GetHostsDeletedCount(s) = 0
    /\ GetHostsDeleteCount(s) = 0
    /\ GetNormalizedCR(s) = 0
    /\ GetNormalizedCRCompleted(s) = 0
    /\ ~HasNormalizedCR(s)
    /\ ~HasNormalizedCRCompleted(s)

\* C19: a call of any mutator on a nil aggregate, CopyFrom into a nil
\* destination included, changes no aggregate; CopyFrom from a nil source
\* changes no aggregate either; every accessor on a nil aggregate gives the
\* zero value.
C19_NilReceiver ==
    /\ (obs.steps > 0 /\ IsNilStatus(Before)) => agg = obs.before
    /\ (obs.op = "CopyFrom" /\ IsNilStatus(obs.before[obs.source])) => agg = obs.before
    /\ \A a \in Aggs : IsNilStatus(agg[a]) => AccessorsGiveZero(agg[a])

\* ReconcileStart was called on the nil aggregate
C19_Witness ==
    /\ obs.op = "ReconcileStart"
    /\ IsNilStatus(Before)
    /\ IsNilStatus(After)
    /\ agg = obs.before

\* the source of the last CopyFrom, before the call
Source == obs.before[obs.source]

\* the last call was CopyFrom between two existing aggregates
LastCopy == obs.op = "CopyFrom" /\ ~IsNilStatus(Before) /\ ~IsNilStatus(Source)

\* arr is in descending order without repetition
StrictlyDescending(arr) == \A i, j \in 1..Len(arr) : i < j => arr[i] > arr[j]

\* C14: CopyFrom with only the Errors switch changes nothing of the
\* destination but its error and its error history; the error history
\* becomes the union of both histories, each string once, in descending
\* order, however long.
C14_ErrorsOnly ==
    (LastCopy /\ obs.arg = [NoCopyOptions EXCEPT !.Errors = TRUE]) =>
        /\ After = [Before EXCEPT !.Error = After.Error, !.Errors = After.Errors]
        /\ After.Error = Source.Error
        /\ Range(After.Errors) = Range(Before.Errors) \cup Range(Source.Errors)
        /\ StrictlyDescending(After.Errors)

\* a merged history of more than ten errors
C14_Witness ==
    /\ LastCopy
    /\ obs.arg = [NoCopyOptions EXCEPT !.Errors = TRUE]
    /\ Before.Errors = FullHistory
    /\ Len(After.Errors) = 15

\* C20: CopyFrom leaves the completed snapshot of the destination alone
\* under every combination of switches without WholeStatus, and makes it
\* the source's when WholeStatus is set.
C20_CompletedSnapshot ==
    LastCopy =>
        After.NormalizedCRCompleted =
            (IF obs.arg.WholeStatus THEN Source.NormalizedCRCompleted
             ELSE Before.NormalizedCRCompleted)

\* every switch but WholeStatus set, snapshots differing: nothing copied
C20_Witness ==
    /\ LastCopy
    /\ obs.arg = [InheritableFields |-> TRUE, Actions |-> TRUE, Errors |-> TRUE,
                  MainFields |-> TRUE, Normalized |-> TRUE, WholeStatus |-> FALSE]
    /\ Before.NormalizedCRCompleted = 2
    /\ Source.NormalizedCRCompleted = 3
    /\ After.NormalizedCRCompleted = 2
    /\ After.NormalizedCR = 3

\* history holds the last entries of log, newest first, cap at most
NewestFirst(history, log, cap) ==
    /\ Len(history) = (IF Len(log) > cap THEN cap ELSE Len(log))
    /\ \A i \in 1..Len(history) : history[i] = log[Len(log) + 1 - i]

\* the PushAction calls whose body has run, in the order they took the lock
ActionsPushed ==
    IF \E w \in Workers : wk[w].pc = "body" /\ wk[w].op = "PushAction"
    THEN SubSeq(obs.actLog, 1, Len(obs.actLog) - 1)
    ELSE obs.actLog

\* C11: whatever PushAction calls the workers make and however they
\* interleave, the action history holds at most ten entries and equals the
\* last ten pushed actions (all of them while fewer), newest first in the
\* order the calls took the lock, repeated actions included.
C11_ActionHistory ==
    /\ Len(agg["A"].Actions) <= 10
    /\ NewestFirst(agg["A"].Actions, ActionsPushed, 10)

\* eleven pushes, a repeated action among them: the first one is gone
C11_Witness ==
    /\ Len(obs.actLog) = 11
    /\ \A w \in Workers : wk[w].pc = "idle"
    /\ Len(agg["A"].Actions) = 10
    /\ agg["A"].Actions[1] = obs.actLog[11]
    /\ agg["A"].Actions[10] = obs.actLog[2]
    /\ agg["A"].Actions[1] = agg["A"].Actions[2]
    /\ agg["A"].Actions[2] # agg["A"].Actions[3]

\* C12: whatever PushError and SetAndPushError calls are made, the error
\* history holds at most ten entries and equals the last ten pushed errors,
\* newest first; a push of an error leaves everything but Error and Errors
\* as it was, and a push of an action leaves Error and Errors as they were.
C12_ErrorHistory ==
    /\ [](/\ Len(agg["A"].Errors) <= 10
          /\ NewestFirst(agg["A"].Errors, obs.errLog, 10)
          /\ NewestFirst(agg["A"].Actions, obs.actLog, 10))
    /\ [][obs'.errLog # obs.errLog =>
            agg'["A"] = [agg["A"] EXCEPT !.Error = agg'["A"].Error,
                                         !.Errors = agg'["A"].Errors]]_vars
    /\ [][obs'.actLog # obs.actLog =>
            /\ agg'["A"].Errors = agg["A"].Errors
            /\ agg'["A"].Error = agg["A"].Error]_vars

\* eleven errors pushed between two pushed actions
C12_Witness ==
    /\ Len(obs.errLog) = 11
    /\ Len(agg["A"].Errors) = 10
    /\ agg["A"].Errors[1] = obs.errLog[11]
    /\ agg["A"].Errors[1] # agg["A"].Errors[2]
    /\ agg["A"].Actions = <<2, 1>>
    /\ agg["A"].Error = 1

\* worker w waits for a mutex that another waiting worker holds for writing
BlockedOnReadLock(w) ==
    /\ wk[w].pc = "rlock"
    /\ mu[wk[w].src].writer \in Workers \ {w}

\* C18: no two workers running CopyFrom in opposite directions are both
\* blocked, each on the mutex the other holds.
C18_NoDeadlock == ~(\A w \in Workers : BlockedOnReadLock(w))

\* the source of the last CopyFrom as it is after the call
SourceAfter == agg[obs.source]

\* the fields the MainFields block is said to replace
BulkFields ==
    {"CHOpVersion", "CHOpCommit", "CHOpDate", "CHOpIP",
     "ClustersCount", "ShardsCount", "ReplicasCount", "HostsCount",
     "Status", "TaskID", "TaskIDsStarted", "TaskIDsCompleted",
     "Action", "Error", "Errors",
     "Pods", "PodIPs", "FQDNs", "Endpoint", "NormalizedCR"}

\* C21: after CopyFrom with MainFields or WholeStatus the identity fields,
\* topology counters, phase, task id, task-id histories, action, error,
\* error history, pods, pod IPs, FQDNs, endpoint and normalized snapshot of
\* the destination, and every per-cycle host counter, the failed one
\* included, equal the source's.
C21_BulkFieldsReplaced ==
    (LastCopy /\ (obs.arg.MainFields \/ obs.arg.WholeStatus)) =>
        \A F \in BulkFields \cup HostCounters : After[F] = SourceAfter[F]

\* arr holds the cap greatest members of set, or all of them when they are
\* fewer, in descending order
GreatestFirst(arr, set, cap) ==
    /\ StrictlyDescending(arr)
    /\ Range(arr) \subseteq set
    /\ Len(arr) = (IF Cardinality(set) > cap THEN cap ELSE Cardinality(set))
    /\ \A x \in set \ Range(arr) : \A i \in 1..Len(arr) : x < arr[i]

\* C22: after CopyFrom with the Actions switch the action history of the
\* destination holds the distinct entries of the two histories (of the
\* source's alone when the inheritable switch replaced the destination's
\* first), in descending order, the first ten of them; the action, the
\* table-created set and the template list are the source's.
C22_ActionsMerged ==
    (LastCopy /\ obs.arg.Actions) =>
        /\ GreatestFirst(After.Actions,
                         (IF obs.arg.InheritableFields THEN {} ELSE Range(Before.Actions))
                             \cup Range(Source.Actions),
                         10)
        /\ After.Action = Source.Action
        /\ After.HostsWithTablesCreated = Source.HostsWithTablesCreated
        /\ After.UsedTemplates = Source.UsedTemplates

\* a full history merged with four actions, three of them newer: thirteen
\* distinct actions, the ten newest kept
C22_Witness ==
    /\ LastCopy
    /\ obs.arg = [NoCopyOptions EXCEPT !.Actions = TRUE]
    /\ Before.Actions = FullHistory
    /\ Source.Actions = <<13, 12, 11, 2>>
    /\ After.Actions = <<13, 12, 11, 10, 9, 8, 7, 6, 5, 4>>
    /\ After.UsedTemplates = <<2, 3>>

\* C23: the blocks of CopyFrom run in the order inheritable, actions,
\* errors, main fields, normalized, whole status, and the later assignment
\* stands: with Errors and MainFields or WholeStatus set the error history
\* of the destination ends as the source's history, not as the union; with
\* the inheritable switch and Errors set, and neither bulk switch, it ends
\* as the source's entries in descending order, the destination's own
\* entries gone.
C23_LaterSwitchWins ==
    /\ (LastCopy /\ obs.arg.Errors /\ (obs.arg.MainFields \/ obs.arg.WholeStatus)) =>
            After.Errors = SourceAfter.Errors
    /\ (LastCopy /\ obs.arg.Errors /\ obs.arg.InheritableFields
            /\ ~obs.arg.MainFields /\ ~obs.arg.WholeStatus) =>
            /\ StrictlyDescending(After.Errors)
            /\ Range(After.Errors) = Range(Source.Errors)

\* Errors and MainFields set, the destination holding errors the source has
\* not and the source's history not in descending order: the destination
\* ends with the source's history as it is
C23_Witness ==
    /\ LastCopy
    /\ obs.arg = [NoCopyOptions EXCEPT !.Errors = TRUE, !.MainFields = TRUE]
    /\ Before.Errors = FullHistory
    /\ Source.Errors = <<1, 3, 2>>
    /\ After.Errors = <<1, 3, 2>>
    /\ SourceAfter.Errors = <<1, 3, 2>>

\* C26: CopyFrom leaves every field of its source as it was, the contents
\* and the order of the source's action and error histories included,
\* under every combination of switches.
C26_SourceUnchanged == LastCopy => SourceAfter = Source

----------------------------------------------------------------------------
(* Further properties of the status update protocol *)

\* C24: every write of an invocation is made in an attempt whose own fetch
\* succeeded, and what is written is the object of that fetch, with its
\* resource version, after the caller's local status has been copied into
\* its status under the caller's switches; nothing fetched or merged in an
\* earlier attempt is written again.
C24_WriteFollowsFetchAndMerge ==
    /\ [](pc = "do_update" =>
            /\ hist.fetchCall = hist.calls
            /\ hist.lastGetErr = "nil"
            /\ cur \in StoredObjects)
    /\ [][hist'.writes # hist.writes =>
            /\ pc = "do_update"
            /\ hist'.writes = hist.writes + 1
            /\ hist'.writeCall = hist.fetchCall
            /\ cur'.rv = cur.rv
            /\ \E keeps \in BOOLEAN :
                   cur'.status = CopyFrom(cur.status, chk.status, {},
                                          opts.CopyStatusOptions, keeps).s
            /\ chk' = chk]_vars
    /\ [][pc = "ret" /\ pc' # pc => cur' = NoObject]_vars

\* the second attempt has written: its own fetch delivered version 2 with
\* the stored action, the local action was merged in before the write
C24_Witness ==
    /\ pc = "do_reget"
    /\ hist.writes = 2
    /\ hist.writeCall = 2
    /\ hist.fetchCall = 2
    /\ hist.preRV = 2
    /\ cur.rv = 2
    /\ opts.CopyStatusOptions = [NoCopyOptions EXCEPT !.Actions = TRUE]
    /\ ~IsNilStatus(chk.status)
    /\ chk.status.Actions = <<1>>
    /\ cur.status.Actions = <<2, 1>>

\* C25: no invocation ends in a panic, whatever the store answers to the
\* fetch and to the re-fetch.
C25_NoPanic == ret # "panic"

\* C28 as stated: at most one write is accepted; an invocation that has had
\* a write accepted makes no further write and ends by returning nil; an
\* invocation that returns an error has had no write accepted.
C28_OneAcceptedWrite ==
    /\ hist.accepted <= 1
    /\ hist.accepted = 1 =>
            /\ hist.writeCall = hist.calls
            /\ pc \in {"do_reget", "ret", "done", "panic"}
            /\ Terminated => (pc = "done" /\ ret = "nil")
    /\ (pc = "done" /\ ret # "nil") => hist.accepted = 0

----------------------------------------------------------------------------
(* Further properties of the Status aggregate *)

\* C27: whatever mutators are called on two aggregates that start empty,
\* CopyFrom between them included, the action history and the two task-id
\* histories of each hold at most ten entries.
C27_HistoriesCapped ==
    \A a \in Aggs :
        /\ Len(agg[a].Actions) <= maxActions
        /\ Len(agg[a].TaskIDsStarted) <= maxTaskIDs
        /\ Len(agg[a].TaskIDsCompleted) <= maxTaskIDs

\* "A" copies from "B" with the Actions switch after ten cycles of each: the
\* twenty actions of the two histories are merged and cut to the ten newest
C27_Witness ==
    /\ obs.op = "CopyFrom"
    /\ obs.target = "A"
    /\ agg["B"].Actions = <<20, 18, 16, 14, 12, 10, 8, 6, 4, 2>>
    /\ agg["A"].Actions = <<20, 19, 18, 17, 16, 15, 14, 13, 12, 11>>
    /\ agg["A"].TaskIDsStarted = <<10, 9, 8, 7, 6, 5, 4, 3, 2, 1>>
    /\ agg["A"].TaskIDsCompleted = <<10, 9, 8, 7, 6, 5, 4, 3, 2, 1>>

====
